---- MODULE Spec2Model ----
(***************************************************************************)
(* Model of the ingredient risk analyser: the classification endpoint      *)
(* (backend.py), the explanation pipeline (rag_pipeline.py) and the        *)
(* analyze flow of the Streamlit page (frontend.py).                       *)
(*                                                                         *)
(* Strings are sequences of symbols.  For parse_ingredients the symbols    *)
(* are characters; for messages and LLM answers they are words (a word is  *)
(* one symbol, " " is the whitespace symbol), which keeps str.strip and    *)
(* str.startswith computed as the code computes them.                      *)
(***************************************************************************)
EXTENDS Integers, Sequences, FiniteSets, TLC

VARIABLES
    ingredient_text,   \* parse_ingredients: its argument
    cleaned,           \* parse_ingredients: the list it returns
    parse_pc,          \* "call" before the call, "done" after it
    payload,           \* POST /predict: the text of the last request
    external,          \* what tokenizer, model and formatting did in it
    http_response,     \* the answer to it (None before the first request)
    invoked,           \* the components predict_risk invoked for it
    env_api_key,       \* os.getenv("GROQ_API_KEY")
    rag_init,          \* what initialize_rag_pipeline did (None before it)
    rag_call,          \* the last call of call_rag_pipeline and its outcome
    ui_pc,             \* frontend: where the script run of the page is
    ui_text,           \* frontend: the content of the text area
    ui_http,           \* frontend: what requests.post did in this run
    session_classification_result,  \* st.session_state.classification_result
    page,              \* frontend: what this run did and rendered, in order
    runs               \* frontend: the number of analyze runs so far

parseVars == <<ingredient_text, cleaned, parse_pc>>

predictVars == <<payload, external, http_response, invoked>>

ragVars == <<env_api_key, rag_init, rag_call>>

uiVars == <<ui_pc, ui_text, ui_http, session_classification_result, page, runs>>

vars == <<ingredient_text, cleaned, parse_pc,
          payload, external, http_response, invoked,
          env_api_key, rag_init, rag_call,
          ui_pc, ui_text, ui_http, session_classification_result, page, runs>>

(***************************************************************************)
(* Bounds                                                                  *)
(***************************************************************************)
MaxLen == 5

MaxTextLen == 2

MaxLabels == 6

MaxRuns == 2

(***************************************************************************)
(* Python values                                                           *)
(***************************************************************************)
\* None and a present value, as a sequence of at most one element
None == <<>>

Some(x) == <<x>>

\* dict.get(key, default)
dict_get(d, key, default) == IF key \in DOMAIN d THEN d[key] ELSE default

\* str(i) of a small non-negative integer
str(i) == <<"0", "1", "2", "3", "4", "5", "6", "7", "8", "9">>[i + 1]

(***************************************************************************)
(* Python string helpers                                                   *)
(***************************************************************************)
Whitespace == {" ", "\t"}

Digits == {"0", "1", "2", "3", "4", "5", "6", "7", "8", "9"}

Delimiters == {",", "(", ")"}

\* str.strip(): drop leading and trailing whitespace
RECURSIVE lstrip(_)
lstrip(s) ==
    IF s # <<>> /\ Head(s) \in Whitespace THEN lstrip(Tail(s)) ELSE s

RECURSIVE rstrip(_)
rstrip(s) ==
    IF s # <<>> /\ s[Len(s)] \in Whitespace
    THEN rstrip(SubSeq(s, 1, Len(s) - 1))
    ELSE s

strip(s) == rstrip(lstrip(s))

\* str.isdigit(): at least one character and all of them digits
isdigit(s) == Len(s) > 0 /\ \A i \in 1..Len(s) : s[i] \in Digits

\* re.split(r'[,()]', s): cut at every delimiter, empty pieces included
RECURSIVE re_split(_)
re_split(s) ==
    IF \A i \in 1..Len(s) : s[i] \notin Delimiters
    THEN <<s>>
    ELSE LET k == CHOOSE i \in 1..Len(s) :
                      /\ s[i] \in Delimiters
                      /\ \A j \in 1..(i - 1) : s[j] \notin Delimiters
         IN  <<SubSeq(s, 1, k - 1)>> \o re_split(SubSeq(s, k + 1, Len(s)))

(***************************************************************************)
(* rag_pipeline.parse_ingredients                                          *)
(***************************************************************************)
\* the filter of the loop body: `if ing and len(ing) > 1 and not ing.isdigit()`
KeepsSingleChars(ing) == ing # <<>> /\ Len(ing) > 0 /\ ~isdigit(ing)

keep_ingredient(ing) == ing # <<>> /\ Len(ing) > 1 /\ ~isdigit(ing)

\* the loop `for ing in ingredients`: strip, filter, append
RECURSIVE clean_loop(_, _)
clean_loop(ingredients, acc) ==
    IF ingredients = <<>>
    THEN acc
    ELSE LET ing == strip(Head(ingredients))
         IN  clean_loop(Tail(ingredients),
                        IF keep_ingredient(ing) THEN Append(acc, ing) ELSE acc)

ParseWithoutStrip(text) == SelectSeq(re_split(text), keep_ingredient)

parse_ingredients(text) == clean_loop(re_split(text), <<>>)

\* the example of the specification's testable properties: "a, b (123), , x"
ExampleText ==
    <<"a", ",", " ", "b", " ", "(", "1", "2", "3", ")", ",", " ", ",", " ", "x">>

ParseAlphabet == {"a", "1", " ", ",", "(", ")"}

ParseInputs ==
    UNION {[1..n -> ParseAlphabet] : n \in 0..MaxLen} \cup {ExampleText}

ParseIngredients ==
    /\ parse_pc = "call"
    /\ cleaned' = parse_ingredients(ingredient_text)
    /\ parse_pc' = "done"
    /\ UNCHANGED ingredient_text

(***************************************************************************)
(* backend.py: the label tables and POST /predict                          *)
(***************************************************************************)
id2risk_level == (0 :> 1) @@ (1 :> 2) @@ (2 :> 3) @@ (3 :> 4) @@ (4 :> 5)

risk_level2category ==
    (1 :> <<"Very Safe">>) @@ (2 :> <<"Safe">>) @@ (3 :> <<"Moderate">>) @@
    (4 :> <<"Concerning">>) @@ (5 :> <<"High Risk">>)

\* 2^n, the weight of a logit of n units (the logits are in units of ln 2)
RECURSIVE Exp2(_)
Exp2(n) == IF n = 0 THEN 1 ELSE 2 * Exp2(n - 1)

RECURSIVE SumWeights(_)
SumWeights(logits) ==
    IF logits = <<>> THEN 0 ELSE Exp2(Head(logits)) + SumWeights(Tail(logits))

\* torch.softmax(logits, dim=-1): each probability a fraction <<num, den>>
softmax(logits) ==
    [i \in 1..Len(logits) |-> <<Exp2(logits[i]), SumWeights(logits)>>]

\* torch.argmax(probs): the 0-based index of the first largest probability
argmax(probs) ==
    (CHOOSE i \in 1..Len(probs) :
        /\ \A j \in 1..Len(probs) : probs[j][1] <= probs[i][1]
        /\ \A j \in 1..(i - 1) : probs[j][1] < probs[i][1]) - 1

\* {str(i): float(p) for i, p in enumerate(probs.tolist()[0])}
format_probabilities(probs) ==
    [k \in {str(i) : i \in 0..(Len(probs) - 1)} |->
        probs[(CHOOSE i \in 0..(Len(probs) - 1) : str(i) = k) + 1]]

HTTPException(status_code, detail) ==
    [status_code |-> status_code, detail |-> detail, body |-> None]

OkResponse(body) == [status_code |-> 200, detail |-> <<>>, body |-> Some(body)]

\* lines 92-94: risk level and category of a predicted index
map_risk(pred_id) ==
    LET risk_level == dict_get(id2risk_level, pred_id, 3)
    IN  [risk_level |-> risk_level,
         risk_category |-> dict_get(risk_level2category, risk_level, <<"Unknown">>)]

\* the try block of predict_risk, lines 76-112, for a non-empty text
predict_try(text, tok, mdl, fmt) ==
    IF tok.raises
    THEN [response |-> HTTPException(500, <<"Prediction failed: ">> \o tok.msg),
          invoked |-> <<"tokenizer">>]
    ELSE IF mdl.raises
    THEN [response |-> HTTPException(500, <<"Prediction failed: ">> \o mdl.msg),
          invoked |-> <<"tokenizer", "model">>]
    ELSE IF fmt.raises
    THEN [response |-> HTTPException(500, <<"Prediction failed: ">> \o fmt.msg),
          invoked |-> <<"tokenizer", "model">>]
    ELSE LET probs == softmax(mdl.logits)
             pred_id == argmax(probs)
             mapped == map_risk(pred_id)
         IN  [response |-> OkResponse(
                  [text |-> text,
                   pred_id |-> pred_id,
                   risk_level |-> mapped.risk_level,
                   risk_category |-> mapped.risk_category,
                   probabilities |-> format_probabilities(probs),
                   error |-> None]),
              invoked |-> <<"tokenizer", "model">>]

\* predict_risk with the emptiness check moved into the try block
PredictCheckInsideTry(payload_text, tok, mdl, fmt) ==
    LET text == strip(payload_text)
    IN  IF text = <<>>
        THEN [response |-> HTTPException(500, <<"Prediction failed: ", "Empty input text">>),
              invoked |-> <<>>]
        ELSE predict_try(text, tok, mdl, fmt)

\* predict_risk answering a failure with a 200 that carries the error
PredictErrorInBody(payload_text, tok, mdl, fmt) ==
    LET text == strip(payload_text)
        r == predict_try(text, tok, mdl, fmt)
    IN  IF text = <<>>
        THEN [response |-> HTTPException(400, <<"Empty input text">>),
              invoked |-> <<>>]
        ELSE IF r.response.status_code = 200 THEN r
        ELSE [response |-> OkResponse(
                  [text |-> text, pred_id |-> 0, risk_level |-> 0,
                   risk_category |-> <<>>, probabilities |-> <<>>,
                   error |-> Some(r.response.detail)]),
              invoked |-> r.invoked]

\* POST /predict, lines 68-112
predict_risk(payload_text, tok, mdl, fmt) ==
    LET text == strip(payload_text)
    IN  IF text = <<>>
        THEN [response |-> HTTPException(400, <<"Empty input text">>),
              invoked |-> <<>>]
        ELSE predict_try(text, tok, mdl, fmt)

\* what the request and the external components can be
PredictTexts == UNION {[1..n -> {" ", "sugar"}] : n \in 0..MaxTextLen}

NoRaise == [raises |-> FALSE, msg |-> <<>>]

Raise(msg) == [raises |-> TRUE, msg |-> <<msg>>]

TokenizerOutcomes == {NoRaise, Raise("tokenizer failed")}

LogitVectors == UNION {[1..n -> {0, 1}] : n \in 1..MaxLabels}

ModelOutcomes ==
    {[raises |-> FALSE, msg |-> <<>>, logits |-> l] : l \in LogitVectors}
    \cup {[raises |-> TRUE, msg |-> <<"out of memory">>, logits |-> <<>>]}

FormatOutcomes == {NoRaise, Raise("validation error")}

\* the components after the one that raised are never reached
Externals ==
    {[tok |-> Raise("tokenizer failed"), mdl |-> NoRaise, fmt |-> NoRaise]}
    \cup {[tok |-> NoRaise, mdl |-> m, fmt |-> NoRaise] : m \in ModelOutcomes}
    \cup {[tok |-> NoRaise, mdl |-> m, fmt |-> Raise("validation error")] :
             m \in {x \in ModelOutcomes : ~x.raises}}

PredictIdle ==
    /\ payload = <<>>
    /\ external = None
    /\ http_response = None
    /\ invoked = <<>>

\* one request: the handler runs once on the request that arrived
PredictRisk ==
    /\ external # None
    /\ http_response = None
    /\ LET ext == external[1]
           r == predict_risk(payload, ext.tok, ext.mdl, ext.fmt)
       IN  /\ http_response' = Some(r.response)
           /\ invoked' = r.invoked
    /\ UNCHANGED <<payload, external>>

(***************************************************************************)
(* rag_pipeline.py: the explainer and call_rag_pipeline                    *)
(***************************************************************************)
\* str.startswith(prefix)
startswith(s, prefix) ==
    Len(s) >= Len(prefix) /\ SubSeq(s, 1, Len(prefix)) = prefix

\* the truth value of None, a dict or a list: `if value` / `if not value`
truthy(v) == v.type # "NoneType" /\ DOMAIN v.items # {}

Returned(value, llm_calls) ==
    [raised |-> FALSE, msg |-> <<>>, value |-> value, llm_calls |-> llm_calls]

Raised(msg, llm_calls) ==
    [raised |-> TRUE, msg |-> msg, value |-> <<>>, llm_calls |-> llm_calls]

NoClassificationData == <<"No classification data available for explanation.">>

\* create_groq_llm, lines 19-39: raises without a key, or when ChatGroq does
create_groq_llm(api_key, ctor) ==
    IF api_key = None \/ api_key[1] = <<>>
    THEN Raised(<<"GROQ_API_KEY not found in environment variables">>, 0)
    ELSE IF ctor.raises
    THEN Raised(ctor.msg, 0)
    ELSE Returned([model |-> "openai/gpt-oss-120b", max_tokens |-> 600,
                   max_retries |-> 2, timeout |-> 30], 0)

\* initialize_rag_pipeline, lines 112-124: an explainer, or None on any error
initialize_rag_pipeline(api_key, ctor) ==
    LET llm == create_groq_llm(api_key, ctor)
    IN  IF llm.raised
        THEN Returned(None, 0)
        ELSE Returned(Some([llm |-> llm.value]), 0)

\* IngredientExplainer.generate_explanation, lines 70-106
generate_explanation(ingredients, risk_level, risk_category, llm) ==
    LET ingredient_list == parse_ingredients(ingredients)
        prompt == [ingredients |-> ingredient_list,
                   risk_level |-> risk_level,
                   risk_category |-> risk_category]
    IN  CASE llm.kind = "raises" ->
                Returned(<<"Could not generate", " explanation: ">> \o llm.msg, 1)
          [] llm.kind = "content" ->
                Returned(strip(llm.content), 1)
          [] llm.kind = "content_not_str" ->
                Returned(<<"Could not generate", " explanation: ",
                           "'list' object has no attribute 'strip'">>, 1)
          [] llm.kind = "no_content" ->
                Returned(strip(llm.content), 1)

\* call_rag_pipeline without the check of lines 146-147
CallWithoutSentinel(explainer, user_input, classification_result, llm) ==
    IF classification_result.type # "dict"
    THEN Returned(<<"Error in RAG pipeline: ",
                    "object has no attribute 'get'">>, 0)
    ELSE IF explainer = None
    THEN Returned(<<"Error in RAG pipeline: ",
                    "'NoneType' object has no attribute 'generate_explanation'">>, 0)
    ELSE generate_explanation(
             user_input,
             dict_get(classification_result.items, "risk_level", <<"unknown">>),
             dict_get(classification_result.items, "risk_category", <<"unknown">>),
             llm)

\* call_rag_pipeline, lines 130-159
call_rag_pipeline(explainer, user_input, classification_result, llm) ==
    IF ~truthy(classification_result)
    THEN Returned(NoClassificationData, 0)
    ELSE IF classification_result.type # "dict"
    THEN Returned(<<"Error in RAG pipeline: ",
                    "'list' object has no attribute 'get'">>, 0)
    ELSE IF explainer = None
    THEN Returned(<<"Error in RAG pipeline: ",
                    "'NoneType' object has no attribute 'generate_explanation'">>, 0)
    ELSE generate_explanation(
             user_input,
             dict_get(classification_result.items, "risk_level", <<"unknown">>),
             dict_get(classification_result.items, "risk_category", <<"unknown">>),
             llm)

\* what the environment, the arguments and the LLM can be
ApiKeys == {None, Some(<<>>), Some(<<"gsk_key">>)}

CtorOutcomes == {NoRaise, Raise("invalid model")}

PyNone == [type |-> "NoneType", items |-> <<>>]

PyDict(items) == [type |-> "dict", items |-> items]

PyList(items) == [type |-> "list", items |-> items]

ClassificationResults ==
    {PyNone, PyDict(<<>>), PyList(<<>>), PyList(<<3>>),
     PyDict([risk_level |-> 3]),
     PyDict([risk_level |-> 3, risk_category |-> <<"Moderate">>])}

UserInputs == {<<>>, <<"o", "a", "t">>, <<"o", "a", "t", ",", " ", "3", "2", "2">>}

LlmContents ==
    UNION {[1..n -> {" ", "Oats are safe."}] : n \in 0..MaxTextLen}
    \cup {<<"Could not generate", " a verdict.">>}

LlmOutcomes ==
    {[kind |-> "raises", msg |-> <<"rate limit exceeded">>, content |-> <<>>],
     [kind |-> "content_not_str", msg |-> <<>>, content |-> <<>>]}
    \cup {[kind |-> "content", msg |-> <<>>, content |-> c] : c \in LlmContents}
    \cup {[kind |-> "no_content", msg |-> <<>>, content |-> c] : c \in LlmContents}

RagIdle ==
    /\ env_api_key = None
    /\ rag_init = None
    /\ rag_call = None

InitializeRagPipeline ==
    /\ rag_init = None
    /\ \E ctor \in CtorOutcomes :
          rag_init' = Some(initialize_rag_pipeline(env_api_key, ctor))
    /\ UNCHANGED <<env_api_key, rag_call>>

\* a caller passes the explainer it was given, or none at all
CallRagPipeline ==
    /\ rag_init # None
    /\ rag_call = None
    /\ \E explainer \in {None, rag_init[1].value},
          user_input \in UserInputs,
          classification_result \in ClassificationResults,
          llm \in LlmOutcomes :
          rag_call' = Some(
              [explainer |-> explainer,
               user_input |-> user_input,
               classification_result |-> classification_result,
               llm |-> llm,
               outcome |-> call_rag_pipeline(explainer, user_input,
                                             classification_result, llm)])
    /\ UNCHANGED <<env_api_key, rag_init>>

(***************************************************************************)
(* frontend.py: the analyze flow, lines 141-191                            *)
(***************************************************************************)
Did(op, text) == [op |-> op, text |-> text]

StatusText(code) ==
    CASE code = 400 -> "400" [] code = 500 -> "500" [] code = 503 -> "503"
      [] OTHER -> "200"

\* what requests.post can do: raise, or bring a response of this backend or
\* of whatever else listens on the port
HttpResponse(status_code, text, json) ==
    [kind |-> "response", status_code |-> status_code, text |-> text,
     json |-> json]

HttpRaises(kind) ==
    [kind |-> kind, status_code |-> 0, text |-> <<>>, json |-> PyNone]

BackendAnswer(text, ext) ==
    LET r == predict_risk(text, ext.tok, ext.mdl, ext.fmt).response
    IN  IF r.body = None
        THEN HttpResponse(r.status_code, r.detail, PyDict([detail |-> r.detail]))
        ELSE HttpResponse(200, <<>>, PyDict(r.body[1]))

UiExternals ==
    {[tok |-> Raise("tokenizer failed"), mdl |-> NoRaise, fmt |-> NoRaise],
     [tok |-> NoRaise, fmt |-> NoRaise,
      mdl |-> [raises |-> FALSE, msg |-> <<>>, logits |-> <<0, 0, 0, 1, 0>>]]}

HttpOutcomes(text) ==
    {HttpRaises("ConnectionError"), HttpRaises("Timeout"), HttpRaises("Exception"),
     HttpResponse(503, <<"Service Unavailable">>, PyNone),
     HttpResponse(200, <<>>, PyDict([error |-> <<"model offline">>])),
     HttpResponse(200, <<>>, PyList(<<3>>)),
     HttpResponse(200, <<>>, PyDict(<<>>))}
    \cup {BackendAnswer(text, ext) : ext \in UiExternals}

UiTexts == {<<>>, <<" ">>, <<"o", "a", "t">>,
            <<"o", "a", "t", ",", " ", "3", "2", "2">>}

\* show_result, lines 101-138: the result line, then the chart, or the
\* error that its own handler shows when the chart cannot be built
show_result(data, chart_raises) ==
    <<Did("show_result", <<>>),
      Did("st.info", <<"Risk Level">>),
      IF chart_raises
      THEN Did("st.error", <<"Error displaying results: ", "error">>)
      ELSE Did("st.bar_chart", <<>>)>>

\* lines 175-180 taking every non-empty answer for an explanation
ExplanationWithoutPrefixCheck(rag_response) ==
    IF rag_response # <<>>
    THEN <<Did("st.success", rag_response)>>
    ELSE <<Did("st.warning",
               <<"Could not generate detailed explanation. ">> \o
               (IF rag_response # <<>> THEN rag_response ELSE <<"No response">>))>>

\* lines 175-180: the explanation, or a warning for an empty or failed one
render_explanation(rag_response) ==
    IF rag_response # <<>> /\ ~startswith(rag_response, <<"Could not generate">>)
    THEN <<Did("st.success", rag_response)>>
    ELSE <<Did("st.warning",
               <<"Could not generate detailed explanation. ">> \o
               (IF rag_response # <<>> THEN rag_response ELSE <<"No response">>))>>

UiIdle ==
    /\ ui_pc = "off"
    /\ ui_text = <<>>
    /\ ui_http = None
    /\ session_classification_result = None
    /\ page = <<>>
    /\ runs = 0

\* lines 141-143: the button is pressed; a blank text ends the run
ClickAnalyze ==
    /\ ui_pc = "idle"
    /\ runs < MaxRuns
    /\ runs' = runs + 1
    /\ \E text \in UiTexts :
          /\ ui_text' = text
          /\ IF strip(text) = <<>>
             THEN /\ page' = <<Did("st.warning", <<"Please enter some ingredients.">>)>>
                  /\ ui_pc' = "done"
             ELSE /\ page' = <<>>
                  /\ ui_pc' = "post"
    /\ ui_http' = None
    /\ rag_call' = None
    /\ UNCHANGED <<session_classification_result, env_api_key, rag_init>>

\* lines 148-152 and 186-191: the request, and what a raise of it shows
PostRequest ==
    /\ ui_pc = "post"
    /\ \E outcome \in HttpOutcomes(ui_text) :
          /\ ui_http' = Some(outcome)
          /\ CASE outcome.kind = "ConnectionError" ->
                    /\ page' = page \o <<Did("requests.post", <<>>),
                          Did("st.error", <<"Cannot connect to API. Is the backend running at http://localhost:8000?">>)>>
                    /\ ui_pc' = "done"
               [] outcome.kind = "Timeout" ->
                    /\ page' = page \o <<Did("requests.post", <<>>),
                          Did("st.error", <<"API request timed out. Please try again.">>)>>
                    /\ ui_pc' = "done"
               [] outcome.kind = "Exception" ->
                    /\ page' = page \o <<Did("requests.post", <<>>),
                          Did("st.error", <<"Unexpected error: ", "error">>)>>
                    /\ ui_pc' = "done"
               [] outcome.kind = "response" ->
                    /\ page' = page \o <<Did("requests.post", <<>>)>>
                    /\ ui_pc' = "response"
    /\ UNCHANGED <<ui_text, session_classification_result, runs, ragVars>>

\* lines 155-165: the status, the error field, the store in the session
HandleResponse ==
    /\ ui_pc = "response"
    /\ LET response == ui_http[1]
           data == response.json
       IN  IF response.status_code # 200
           THEN /\ page' = page \o
                       <<Did("st.error", <<"API Error ", StatusText(response.status_code),
                                           ": ">> \o response.text)>>
                /\ ui_pc' = "done"
                /\ UNCHANGED session_classification_result
           ELSE IF data.type # "dict"
           THEN /\ page' = page \o
                       <<Did("st.error", <<"Unexpected error: ",
                                           "'list' object has no attribute 'get'">>)>>
                /\ ui_pc' = "done"
                /\ UNCHANGED session_classification_result
           ELSE IF dict_get(data.items, "error", None) # <<>>
           THEN /\ page' = page \o
                       <<Did("st.error", <<"Classification Error: ">> \o data.items.error)>>
                /\ ui_pc' = "done"
                /\ UNCHANGED session_classification_result
           ELSE /\ session_classification_result' = Some(data)
                /\ page' = page \o <<Did("session_state.classification_result", <<>>)>>
                /\ ui_pc' = "show"
    /\ UNCHANGED <<ui_text, ui_http, runs, ragVars>>

\* line 166
ShowResult ==
    /\ ui_pc = "show"
    /\ \E chart_raises \in BOOLEAN :
          page' = page \o show_result(ui_http[1].json, chart_raises)
    /\ ui_pc' = "explain"
    /\ UNCHANGED <<ui_text, ui_http, session_classification_result, runs, ragVars>>

\* lines 169-184: the cached pipeline, the call, the explanation or a banner
Explain ==
    /\ ui_pc = "explain"
    /\ \E ctor \in CtorOutcomes, llm \in LlmOutcomes, st_raises \in BOOLEAN :
          LET cached == IF rag_init = None
                        THEN initialize_rag_pipeline(env_api_key, ctor)
                        ELSE rag_init[1]
              rag_chain == cached.value
              data == ui_http[1].json
              outcome == call_rag_pipeline(rag_chain, ui_text, data, llm)
          IN  /\ rag_init' = Some(cached)
              /\ IF rag_chain = None
                 THEN /\ rag_call' = None
                      /\ page' = page \o
                            <<Did("st.warning", <<"RAG pipeline unavailable. Showing classification only.">>)>>
                 ELSE /\ rag_call' = Some([explainer |-> rag_chain,
                                           user_input |-> ui_text,
                                           classification_result |-> data,
                                           llm |-> llm,
                                           outcome |-> outcome])
                      /\ page' = page \o <<Did("call_rag_pipeline", <<>>)>> \o
                            (IF st_raises
                             THEN <<Did("st.error", <<"Error in RAG pipeline: ", "error">>)>>
                             ELSE render_explanation(outcome.value))
    /\ ui_pc' = "done"
    /\ UNCHANGED <<ui_text, ui_http, session_classification_result, runs, env_api_key>>

\* the next interaction reruns the script; the session state stays
Rerun ==
    /\ ui_pc = "done"
    /\ ui_pc' = "idle"
    /\ UNCHANGED <<ui_text, ui_http, session_classification_result, page, runs, ragVars>>

(***************************************************************************)
(* Specifications                                                          *)
(***************************************************************************)
ParseIdle ==
    /\ ingredient_text = <<>>
    /\ cleaned = <<>>
    /\ parse_pc = "idle"

ParseInit ==
    /\ ingredient_text \in ParseInputs
    /\ cleaned = <<>>
    /\ parse_pc = "call"
    /\ PredictIdle
    /\ RagIdle
    /\ UiIdle

ParseNext == ParseIngredients /\ UNCHANGED <<predictVars, ragVars, uiVars>>

SpecParse == ParseInit /\ [][ParseNext]_vars

PredictInit ==
    /\ payload \in PredictTexts
    /\ external \in {Some(e) : e \in Externals}
    /\ http_response = None
    /\ invoked = <<>>
    /\ ParseIdle
    /\ RagIdle
    /\ UiIdle

PredictNext == PredictRisk /\ UNCHANGED <<parseVars, ragVars, uiVars>>

SpecPredict == PredictInit /\ [][PredictNext]_vars

RagInit ==
    /\ env_api_key \in ApiKeys
    /\ rag_init = None
    /\ rag_call = None
    /\ ParseIdle
    /\ PredictIdle
    /\ UiIdle

RagNext ==
    \/ InitializeRagPipeline /\ UNCHANGED <<parseVars, predictVars, uiVars>>
    \/ CallRagPipeline /\ UNCHANGED <<parseVars, predictVars, uiVars>>

SpecRag == RagInit /\ [][RagNext]_vars

UiInit ==
    /\ ui_pc = "idle"
    /\ ui_text = <<>>
    /\ ui_http = None
    /\ session_classification_result = None
    /\ page = <<>>
    /\ runs = 0
    /\ env_api_key \in ApiKeys
    /\ rag_init = None
    /\ rag_call = None
    /\ ParseIdle
    /\ PredictIdle

UiNext ==
    \/ ClickAnalyze /\ UNCHANGED <<parseVars, predictVars>>
    \/ PostRequest /\ UNCHANGED <<parseVars, predictVars>>
    \/ HandleResponse /\ UNCHANGED <<parseVars, predictVars>>
    \/ ShowResult /\ UNCHANGED <<parseVars, predictVars>>
    \/ Explain /\ UNCHANGED <<parseVars, predictVars>>
    \/ Rerun /\ UNCHANGED <<parseVars, predictVars>>

SpecUi == UiInit /\ [][UiNext]_vars

(***************************************************************************)
(* C3, C4: the Ingredient Splitter                                         *)
(***************************************************************************)
\* positions of the delimiters of s, with the two ends 0 and Len(s)+1
CutPoints(s) == {0, Len(s) + 1} \cup {i \in 1..Len(s) : s[i] \in Delimiters}

\* the k-th smallest element of a set of numbers
KthCut(S, k) == CHOOSE x \in S : Cardinality({y \in S : y < x}) = k - 1

\* the k-th piece between two neighbouring cut points
Piece(s, k) ==
    SubSeq(s, KthCut(CutPoints(s), k) + 1, KthCut(CutPoints(s), k + 1) - 1)

\* a piece without its leading and trailing whitespace
Trimmed(p) ==
    LET ink == {i \in 1..Len(p) : p[i] \notin Whitespace}
    IN  IF ink = {} THEN <<>>
        ELSE SubSeq(p, CHOOSE i \in ink : \A j \in ink : i <= j,
                       CHOOSE i \in ink : \A j \in ink : i >= j)

Dropped(p) == p = <<>> \/ Len(p) <= 1 \/ (\A i \in 1..Len(p) : p[i] \in Digits)

ExpectedTokens(s) ==
    LET n == Cardinality(CutPoints(s)) - 1
        trimmed == [k \in 1..n |-> Trimmed(Piece(s, k))]
        Kept(p) == ~Dropped(p)
    IN  SelectSeq(trimmed, Kept)

\* C3: parse_ingredients returns exactly the pieces between delimiters,
\* trimmed, without the empty, one-character and all-digit ones, in input
\* order with duplicates kept; the empty input yields the empty sequence.
C3_SplitTrimFilter ==
    parse_pc = "done" =>
        /\ cleaned = ExpectedTokens(ingredient_text)
        /\ (ingredient_text = <<>> => cleaned = <<>>)

\* a call that trimmed a piece, dropped a numeric one and kept a duplicate
C3_Witness ==
    /\ parse_pc = "done"
    /\ \/ ingredient_text = <<"a", "a", ",", "a", "a">>
          /\ cleaned = <<<<"a", "a">>, <<"a", "a">>>>
       \/ ingredient_text = <<" ", "a", "a", "(", "1">>
          /\ cleaned = <<<<"a", "a">>>>

\* C4 as stated: the example yields ["a", "b", "x"]
C4_ExampleKeepsSingleChars ==
    (parse_pc = "done" /\ ingredient_text = ExampleText) =>
        cleaned = <<<<"a">>, <<"b">>, <<"x">>>>

\* C4 amended: the example yields the empty list, because "a", "b" and "x"
\* have length 1, "123" is numeric and the remaining pieces are empty.
C4_ExampleYieldsNothing ==
    (parse_pc = "done" /\ ingredient_text = ExampleText) => cleaned = <<>>

C4_Witness ==
    /\ parse_pc = "done"
    /\ ingredient_text = ExampleText
    /\ Len(re_split(ingredient_text)) = 6

(***************************************************************************)
(* C1, C2, C5, C6: POST /predict                                           *)
(***************************************************************************)
Answered == http_response # None

Response == http_response[1]

Blank(s) == \A i \in 1..Len(s) : s[i] \in Whitespace

CategoryTable(level) ==
    CASE level = 1 -> <<"Very Safe">>
      [] level = 2 -> <<"Safe">>
      [] level = 3 -> <<"Moderate">>
      [] level = 4 -> <<"Concerning">>
      [] level = 5 -> <<"High Risk">>
      [] OTHER -> <<>>

\* C1: the mapper gives level i + 1 and the table's category for i in 0..4,
\* and every 200 response has risk_level = pred_id + 1 with risk_level in 1..5.
C1_LevelIsIndexPlusOne ==
    /\ \A i \in 0..4 :
          /\ map_risk(i).risk_level = i + 1
          /\ map_risk(i).risk_category = CategoryTable(i + 1)
    /\ (Answered /\ Response.status_code = 200) =>
          /\ Response.body[1].risk_level = Response.body[1].pred_id + 1
          /\ Response.body[1].risk_level \in 1..5

\* C2: an index outside 0..4 never yields a 200 response (the mapper fails
\* instead of defaulting the level and the category).
C2_UnknownIndexFails ==
    (Answered /\ Response.status_code = 200) => Response.body[1].pred_id \in 0..4

\* C5: a request whose text is blank is answered 400 "Empty input text", with
\* neither the tokenizer nor the model invoked, and never 500.
C5_BlankTextIs400 ==
    (Answered /\ Blank(payload)) =>
        /\ Response.status_code = 400
        /\ Response.detail = <<"Empty input text">>
        /\ Response.body = None
        /\ invoked = <<>>

\* a whitespace-only request, answered while the tokenizer would have raised
C5_Witness ==
    /\ Answered
    /\ payload = <<" ">>
    /\ external[1].tok.raises
    /\ Response.status_code = 400

RaisedMessage(ext) ==
    IF ext.tok.raises THEN ext.tok.msg
    ELSE IF ext.mdl.raises THEN ext.mdl.msg
    ELSE IF ext.fmt.raises THEN ext.fmt.msg
    ELSE <<>>

\* C6: for a non-blank text, a raise in tokenization, inference or formatting
\* is answered 500 with the underlying message and no body; a 200 response
\* has every field set and no error.
C6_FailureIs500 ==
    (Answered /\ ~Blank(payload)) =>
        /\ RaisedMessage(external[1]) # <<>> =>
              /\ Response.status_code = 500
              /\ Response.detail =
                    <<"Prediction failed: ">> \o RaisedMessage(external[1])
              /\ Response.body = None
        /\ RaisedMessage(external[1]) = <<>> => Response.status_code = 200
        /\ Response.status_code = 200 =>
              /\ Response.body # None
              /\ Response.detail = <<>>
              /\ Response.body[1].error = None
              /\ Response.body[1].text # <<>>
              /\ ~Blank(Response.body[1].text)
              /\ Response.body[1].pred_id \in 0..(MaxLabels - 1)
              /\ Response.body[1].risk_level \in 1..5
              /\ Response.body[1].risk_category # <<>>
              /\ DOMAIN Response.body[1].probabilities # {}

\* a request whose inference raised after a successful tokenization
C6_Witness ==
    /\ Answered
    /\ ~Blank(payload)
    /\ external[1].mdl.raises
    /\ invoked = <<"tokenizer", "model">>
    /\ Response.status_code = 500

(***************************************************************************)
(* C7, C8, C9: the Explanation Service                                     *)
(***************************************************************************)
Called == rag_call # None

Call == rag_call[1]

FailurePrefix == <<"Could not generate", " explanation: ">>

\* the value is the text the LLM answered, trimmed, and is not empty
IsExplanation(call) ==
    /\ call.outcome.llm_calls = 1
    /\ call.llm.kind \in {"content", "no_content"}
    /\ call.outcome.value = Trimmed(call.llm.content)
    /\ call.outcome.value # <<>>

\* C7: a call never raises, and returns a non-empty explanation or a string
\* that begins with "Could not generate explanation: " (the fixed answer to a
\* call without classification data is let through here).
C7_ExplanationOrFailurePrefix ==
    Called =>
        /\ ~Call.outcome.raised
        /\ \/ startswith(Call.outcome.value, FailurePrefix)
           \/ IsExplanation(Call)
           \/ (~truthy(Call.classification_result)
               /\ Call.outcome.value = NoClassificationData)

\* C8: without GROQ_API_KEY, initialize_rag_pipeline raises a descriptive
\* error to its caller instead of returning None.
C8_MissingKeyFailsFast ==
    (rag_init # None /\ env_api_key = None) =>
        /\ rag_init[1].raised
        /\ rag_init[1].msg # <<>>

\* C9: a call with no classification result (None or empty) returns the
\* fixed sentinel without invoking the LLM; any call invokes it at most once.
C9_NoClassificationNoLlm ==
    Called =>
        /\ (Call.classification_result.type = "NoneType"
            \/ DOMAIN Call.classification_result.items = {}) =>
              /\ Call.outcome.value =
                    <<"No classification data available for explanation.">>
              /\ Call.outcome.llm_calls = 0
        /\ Call.outcome.llm_calls <= 1

\* a call without classification, with an explainer whose LLM would answer
C9_Witness ==
    /\ Called
    /\ Call.classification_result = PyNone
    /\ Call.explainer # None
    /\ Call.llm.kind = "content"
    /\ Call.outcome.llm_calls = 0

(***************************************************************************)
(* C10: the analyze flow of the Presentation Layer                         *)
(***************************************************************************)
Positions(op) == {i \in 1..Len(page) : page[i].op = op}

IsBanner(e) ==
    /\ e.op \in {"st.warning", "st.error", "st.success"}
    /\ e.text[1] # "Error displaying results: "

Banners == SelectSeq(page, IsBanner)

\* the first words of the message of each kind of classification failure
FailureBanner(kind) ==
    CASE kind = "blank" -> Did("st.warning", "Please enter some ingredients.")
      [] kind = "ConnectionError" ->
            Did("st.error", "Cannot connect to API. Is the backend running at http://localhost:8000?")
      [] kind = "Timeout" -> Did("st.error", "API request timed out. Please try again.")
      [] kind = "status" -> Did("st.error", "API Error ")
      [] kind = "error field" -> Did("st.error", "Classification Error: ")
      [] kind = "Exception" -> Did("st.error", "Unexpected error: ")

FailureKinds ==
    {"blank", "ConnectionError", "Timeout", "status", "error field", "Exception"}

\* the kind of classification failure of the run, "none" for a usable answer
FailureOfRun ==
    IF \A i \in 1..Len(ui_text) : ui_text[i] \in Whitespace THEN "blank"
    ELSE IF ui_http[1].kind # "response" THEN ui_http[1].kind
    ELSE IF ui_http[1].status_code # 200 THEN "status"
    ELSE IF ui_http[1].json.type # "dict" THEN "Exception"
    ELSE IF "error" \in DOMAIN ui_http[1].json.items
            /\ ui_http[1].json.items.error # <<>> THEN "error field"
    ELSE "none"

\* the explanation call is preceded by the store and the rendering of a 200
\* answer that has no error
ExplainOnlyAfterResult ==
    \A i \in Positions("call_rag_pipeline") :
        /\ FailureOfRun = "none"
        /\ session_classification_result = Some(ui_http[1].json)
        /\ \E j \in Positions("session_state.classification_result"),
              k \in Positions("show_result") :
              /\ j < k
              /\ k < i
              /\ page[k + 1] = Did("st.info", <<"Risk Level">>)

\* a classification failure ends the run with the message of its kind, which
\* no other kind has, without store, rendering or explanation call
ClassificationFailureEndsRun ==
    (ui_pc = "done" /\ FailureOfRun # "none") =>
        /\ Len(Banners) = 1
        /\ Banners[1].op = FailureBanner(FailureOfRun).op
        /\ Banners[1].text[1] = FailureBanner(FailureOfRun).text
        /\ \A other \in FailureKinds \ {FailureOfRun} :
              Banners[1].text[1] # FailureBanner(other).text
        /\ Positions("call_rag_pipeline") = {}
        /\ Positions("show_result") = {}
        /\ Positions("session_state.classification_result") = {}
        /\ rag_call = None

\* an explanation that is unavailable, failure-prefixed or empty, or whose
\* display raised, leaves one warning or error banner and the stored,
\* displayed classification
ExplanationFailureIsBanner ==
    (ui_pc = "done" /\ FailureOfRun = "none") =>
        /\ session_classification_result = Some(ui_http[1].json)
        /\ Positions("show_result") # {}
        /\ Did("st.info", <<"Risk Level">>) \in {page[i] : i \in 1..Len(page)}
        /\ Len(Banners) = 1
        /\ rag_init # None
        /\ (rag_init[1].value = None) =>
              /\ Banners[1].op = "st.warning"
              /\ Positions("call_rag_pipeline") = {}
        /\ (rag_call # None
            /\ (rag_call[1].outcome.value = <<>>
                \/ startswith(rag_call[1].outcome.value, <<"Could not generate">>))) =>
              Banners[1].op \in {"st.warning", "st.error"}
        /\ Banners[1].op = "st.success" =>
              /\ rag_call # None
              /\ Banners[1].text = rag_call[1].outcome.value
        /\ Banners[1].op = "st.error" =>
              Banners[1].text[1] = "Error in RAG pipeline: "

\* C10: in every run of the analyze flow the explanation is called only
\* after a 200 answer without error was stored and rendered; a
\* classification failure ends the run with its own message and no
\* explanation call; an explanation failure shows only a warning or error
\* banner and keeps the classification stored and displayed.
C10_AnalyzeFlow ==
    /\ ExplainOnlyAfterResult
    /\ ClassificationFailureEndsRun
    /\ ExplanationFailureIsBanner

\* a run whose LLM call failed after the classification was displayed
C10_Witness ==
    /\ ui_pc = "done"
    /\ session_classification_result # None
    /\ Positions("show_result") # {}
    /\ rag_call # None
    /\ rag_call[1].llm.kind = "raises"
    /\ startswith(rag_call[1].outcome.value, FailurePrefix)
    /\ Banners[1].op = "st.warning"

====
